---- MODULE Spec2Model ----
(***************************************************************************)
(* ytune: the Discord presence IPC client.                                 *)
(*                                                                         *)
(* Execution contexts:                                                     *)
(*   - the UI thread, which runs the webview ipc handler (main.rs 157-266) *)
(*     once per notification, synchronously;                               *)
(*   - background threads: the startup connection thread (main.rs 126-141) *)
(*     and the reconnect threads running attempt_reconnect (354-372).      *)
(* Shared state: discord_connection, an Arc<Mutex<Option<(File, u32)>>>.   *)
(* last_track is a second mutex, used by the ipc handler only.             *)
(***************************************************************************)
EXTENDS Integers, Sequences, FiniteSets, TLC

\* ---------------------------------------------------------------- bounds
MaxThreads == 2      \* background threads ever spawned (startup included)
MaxSnaps == 2        \* notifications delivered to the ipc handler
MaxFrames == 2       \* frames written to the loopback channel of the framing model
MaxPayload == 2      \* bytes of the short payloads of the framing model
LongLen == 258       \* bytes of its one long payload (length needs two header bytes)

\* ------------------------------------------------------ program constants
MaxAttempts == 10    \* discord_ipc.rs:20  for attempt in 1..=10
Pid == 4242          \* main.rs:127  process::id()

\* ------------------------------------------------------------ Option<T>
None == <<>>
Some(v) == <<v>>
Unwrap(o) == o[1]

\* ----------------------------------------------------- io::ErrorKind sets
\* a classifier that takes InvalidData for a broken pipe too
TransportKinds_withInvalidData == {"BrokenPipe", "ConnectionReset", "UnexpectedEof", "InvalidData"}
\* main.rs 336-339: the kinds handle_ipc_error acts on
TransportKinds == {"BrokenPipe", "ConnectionReset", "UnexpectedEof"}
OpenErrKinds == {"NotFound", "PermissionDenied", "Other"}
WriteErrKinds == {"BrokenPipe", "ConnectionReset", "Other"}
ReadErrKinds == {"BrokenPipe", "ConnectionReset", "UnexpectedEof", "Other"}

\* ---------------------------------------------------------- track snapshot
Titles == {None, Some(""), Some("Song A")}
Artists == {None, Some(""), Some("Artist X")}
Arts == {None, Some("http://x/a.png")}
Durations == {None, Some(200), Some(210)}

LastTrackInfo == [title : Titles, artist : Artists, album_art : Arts, duration_sec : Durations]
DefaultTrack == [title |-> None, artist |-> None, album_art |-> None, duration_sec |-> None]

\* wall clock readings of SystemTime::now()
Times == {1000}

VARIABLES
    slot,        \* *discord_connection: None or Some(<<file, pid>>)
    lockOwner,   \* holder of the discord_connection mutex
    last_track,  \* *last_track
    hpc,         \* position of the UI thread inside the ipc handler
    cur,         \* current_track of the running handler invocation
    payload,     \* activity payload built by the running invocation
    herr,        \* the io::Error kind passed to handle_ipc_error
    seq,         \* number of notifications delivered so far
    outcome,     \* how the last handler invocation went (history)
    sent,        \* <<file, seq>> of the SET_ACTIVITY frames written, in order (history)
    wrote,       \* the frame written for the latest notification, if any (history)
    dropped,     \* notifications that found the slot empty (history)
    th,          \* background threads
    hs,          \* the latest return of connect_and_handshake (history)
    nthreads,    \* number of threads spawned so far
    rlog,        \* <<file, seq>> of the read_message calls of the ipc handler, in order (history)
    pipe,        \* framing: the bytes in the channel, written and not yet read
    wlog,        \* framing: the frames write_message wrote, not yet read back (history)
    nframes,     \* framing: number of frames written so far
    closed,      \* framing: the peer has closed its end of the channel
    rres         \* framing: what the latest read_message call returned (history)

ProgramVars == <<slot, lockOwner, last_track, hpc, cur, payload, herr, seq, outcome, sent, wrote, dropped, th, hs, nthreads, rlog>>
FrameVars == <<pipe, wlog, nframes, closed, rres>>
vars == <<ProgramVars, FrameVars>>

\* how a handler invocation ended, and on which error kind
Out(what, kind) == [what |-> what, err |-> kind]
Free == <<"free">>
Ui == <<"ui">>
Tid(t) == <<"thread", t>>
Threads == 1..MaxThreads


\* ---------------------------------------------------------------- framing
\* discord_ipc.rs 48-84 on bytes. A byte is 0..255, a payload a sequence of
\* bytes, the channel a byte queue. TLC integers end at 2^31 - 1:
\* opcodes and lengths used here stay below 2^31, where usize as u32 is
\* the identity and the top byte of a u32 is below 128.
BigOpcode == 2130706690     \* 0x7F000102: four bytes, all different
\* the header fields stored least significant byte first
to_le_bytes_bigEndian(n) == <<(n \div 16777216) % 256, (n \div 65536) % 256, (n \div 256) % 256, n % 256>>
\* u32::to_le_bytes
to_le_bytes(n) == <<n % 256, (n \div 256) % 256, (n \div 65536) % 256, (n \div 16777216) % 256>>
\* u32::from_le_bytes
from_le_bytes(b) == b[1] + 256 * b[2] + 65536 * b[3] + 16777216 * b[4]

\* String::from_utf8: the bytes are well-formed UTF-8. A byte 80..BF is a
\* continuation byte; every other byte must be a lead byte followed by the
\* continuation bytes its value asks for (the first of them in the range the
\* lead allows), and every continuation byte must belong to such a lead.
IsCont(x) == x >= 128 /\ x <= 191
Need(c) == IF c < 128 THEN 0
           ELSE IF c >= 194 /\ c <= 223 THEN 1
           ELSE IF c >= 224 /\ c <= 239 THEN 2
           ELSE IF c >= 240 /\ c <= 244 THEN 3
           ELSE 0 - 1
SecondLo(c) == IF c = 224 THEN 160 ELSE IF c = 240 THEN 144 ELSE 128
SecondHi(c) == IF c = 237 THEN 159 ELSE IF c = 244 THEN 143 ELSE 191
Utf8Valid(b) ==
    \A i \in 1..Len(b) :
      IF IsCont(b[i])
      THEN \E k \in 1..3 : /\ i - k >= 1
                           /\ Need(b[i - k]) >= k
                           /\ \A j \in 1..(k - 1) : IsCont(b[i - j])
      ELSE /\ Need(b[i]) >= 0
           /\ \A j \in 1..Need(b[i]) : i + j <= Len(b) /\ IsCont(b[i + j])
           /\ Need(b[i]) >= 1 => b[i + 1] >= SecondLo(b[i]) /\ b[i + 1] <= SecondHi(b[i])

\* write_message: the bytes handed to write_all (header, then payload); the
\* length field is payload.len() as u32
write_message(opcode, text) == to_le_bytes(opcode) \o to_le_bytes(Len(text)) \o text

\* what one read_message call returned: Ok((opcode, payload)) or the kind of
\* its error, the bytes it took from the channel and the read_exact calls it
\* made
FrameOk(o, t, n, k) == [ok |-> TRUE, kind |-> "", opcode |-> o, payload |-> t, consumed |-> n, reads |-> k]
FrameErr(e, n, k) == [ok |-> FALSE, kind |-> e, opcode |-> 0, payload |-> <<>>, consumed |-> n, reads |-> k]
NoRead == FrameErr("none", 0, 0)

\* a read_message that reads a payload whatever the length says
read_message_bytes_alwaysPayload(p) ==
    IF Len(p) < 8 THEN FrameErr("UnexpectedEof", Len(p), 1)
    ELSE LET opcode == from_le_bytes(SubSeq(p, 1, 4))
             length == from_le_bytes(SubSeq(p, 5, 8))
         IN IF Len(p) - 8 < length THEN FrameErr("UnexpectedEof", Len(p), 2)
            ELSE LET payload_bytes == SubSeq(p, 9, 8 + length)
                 IN IF Utf8Valid(payload_bytes)
                    THEN FrameOk(opcode, payload_bytes, 8 + length, 2)
                    ELSE FrameErr("InvalidData", 8 + length, 2)

\* read_message on the bytes p the channel will deliver before its end: a
\* read_exact that meets the end of the channel fails with UnexpectedEof and
\* has taken what was there.
read_message_bytes(p) ==
    IF Len(p) < 8 THEN FrameErr("UnexpectedEof", Len(p), 1)
    ELSE LET opcode == from_le_bytes(SubSeq(p, 1, 4))
             length == from_le_bytes(SubSeq(p, 5, 8))
         IN IF length > 0
            THEN IF Len(p) - 8 < length THEN FrameErr("UnexpectedEof", Len(p), 2)
                 ELSE LET payload_bytes == SubSeq(p, 9, 8 + length)
                      IN IF Utf8Valid(payload_bytes)
                         THEN FrameOk(opcode, payload_bytes, 8 + length, 2)
                         ELSE FrameErr("InvalidData", 8 + length, 2)
            ELSE FrameOk(opcode, <<>>, 8, 1)

\* read_exact blocks while the channel is open and short of bytes:
\* read_message returns once the bytes it asks for are there
Complete(p) == Len(p) >= 8 /\ Len(p) - 8 >= from_le_bytes(SubSeq(p, 5, 8))

\* opcodes and payload texts of the framing model: "", "A", "AA", "é", ...
\* and one long text
FrameOpcodes == {0, 1, BigOpcode}
FrameBytes == {65, 195, 169}
LongText == [i \in 1..LongLen |-> 65]
FrameTexts == {t \in UNION {[1..n -> FrameBytes] : n \in 0..MaxPayload} : Utf8Valid(t)}
              \cup {LongText}
Frame(o, t) == [opcode |-> o, payload |-> t]
\* bytes the peer may have put into the channel beforehand: nothing, half a
\* header, a payload that is not UTF-8, a payload cut short, an empty frame
PeerChunks == {<<>>,
               <<1, 0, 0, 0>>,
               to_le_bytes(1) \o to_le_bytes(1) \o <<255>>,
               to_le_bytes(1) \o to_le_bytes(2) \o <<65>>,
               to_le_bytes(2) \o to_le_bytes(0)}
\* the bytes of the frames fs, back to back
RECURSIVE Encode(_)
Encode(fs) == IF fs = <<>> THEN <<>>
              ELSE write_message(Head(fs).opcode, Head(fs).payload) \o Encode(Tail(fs))

\* ------------------------------------------------------------ serde_json
\* A payload text is abstracted by what serde_json makes of it:
\*   k = "empty"   the empty string            (not JSON)
\*   k = "garbage" valid UTF-8 that is not JSON
\*   k = "scalar"  a JSON document that is not an object
\*   k = "object"  a JSON object; cmd and evt are its members of that name,
\*                 None when absent, else Some(<<"str", s>>) or Some(<<"num", n>>)
\* and, for str::contains, by which of the two needles of main.rs:238 occur
\* in its characters: subs holds <<"cmd", "SET_ACTIVITY">> when the text
\* contains "cmd":"SET_ACTIVITY" and <<"evt", "ERROR">> when it contains
\* "evt":"ERROR" (quotes included, nothing between them and the colon).
JStr(s) == Some(<<"str", s>>)
JNum == Some(<<"num", "1">>)
Needles == {<<"cmd", "SET_ACTIVITY">>, <<"evt", "ERROR">>}
RawText(k, c, e, subs) == [k |-> k, cmd |-> c, evt |-> e, subs |-> subs]
\* a text as serde_json writes it (compact): an object's member cmd or evt
\* with a needle's value is a needle in its characters
Text(k, c, e) ==
    RawText(k, c, e, {n \in Needles : /\ k = "object"
                                      /\ \/ n[1] = "cmd" /\ c = JStr(n[2])
                                         \/ n[1] = "evt" /\ e = JStr(n[2])})
EmptyText == Text("empty", None, None)
NonObjectTexts == {Text("garbage", None, None), Text("scalar", None, None)}
ObjectTexts == {Text("object", c, e) :
                  c \in {None, JStr("DISPATCH"), JStr("SET_ACTIVITY"), JNum},
                  e \in {None, JStr("READY"), JStr("ERROR")}}
Texts == NonObjectTexts \cup ObjectTexts

\* serde_json::from_str::<Value>
FromStr(text) == IF text.k \in {"scalar", "object"}
                 THEN [ok |-> TRUE, json |-> text]
                 ELSE [ok |-> FALSE, json |-> text]
\* Value::get(key): None unless the value is an object having the member
Get(json, key) == IF json.k = "object" THEN json[key] ELSE None
\* Option::and_then(|v| v.as_str())
AndThenAsStr(o) == IF o /= None /\ Unwrap(o)[1] = "str" THEN Some(Unwrap(o)[2]) ELSE None
\* str::contains(needle) on the characters of the response, parsed or not
Contains(text, key, value) == <<key, value>> \in text.subs

\* ----------------------------------------------------------- read_message
\* What the channel delivers to one read_message call: the header read fails
\* (hdr is the error kind) or yields opcode and length; for length > 0 the
\* payload read fails (body is the error kind), or yields bytes that are
\* valid UTF-8 (body = "ok") or not (body = "badutf8").
Opcodes == {1, 2}
PayloadLen == 16
Wire(h, o, l, b, t) == [hdr |-> h, opcode |-> o, length |-> l, body |-> b, text |-> t]
WireHdrErrs == {Wire(e, 0, 0, "ok", EmptyText) : e \in ReadErrKinds}
WireBodyErrs == {Wire("ok", 1, PayloadLen, e, EmptyText) : e \in {"UnexpectedEof", "badutf8"}}
WireEmpty == {Wire("ok", o, 0, "ok", EmptyText) : o \in Opcodes}
WireTexts(T) == {Wire("ok", o, PayloadLen, "ok", t) : o \in Opcodes, t \in T}
\* what the handshake read can meet
HandshakeWires == WireHdrErrs \cup WireBodyErrs \cup WireEmpty \cup WireTexts(Texts)
\* what the read after a SET_ACTIVITY command can meet
\* compact objects; the rejection written with a space after each colon (no
\* needle occurs); both needles inside a nested object; both in text that
\* is no JSON
ResponseTexts == {Text("garbage", None, None)}
                 \cup {Text("object", JStr(c), e) : c \in {"SET_ACTIVITY", "DISPATCH"},
                                                    e \in {None, JStr("ERROR")}}
                 \cup {RawText("object", JStr("SET_ACTIVITY"), JStr("ERROR"), {}),
                       RawText("object", JStr("DISPATCH"), None, Needles),
                       RawText("garbage", None, None, Needles)}
ResponseWires == WireHdrErrs \cup WireBodyErrs \cup WireEmpty \cup WireTexts(ResponseTexts)

IoOk(o, t) == [ok |-> TRUE, kind |-> "", opcode |-> o, text |-> t]
IoErr(k) == [ok |-> FALSE, kind |-> k, opcode |-> 0, text |-> EmptyText]

read_message(w) ==
    IF w.hdr /= "ok" THEN IoErr(w.hdr)
    ELSE IF w.length > 0
         THEN IF w.body = "badutf8" THEN IoErr("InvalidData")
              ELSE IF w.body /= "ok" THEN IoErr(w.body)
              ELSE IoOk(w.opcode, w.text)
         ELSE IoOk(w.opcode, EmptyText)

\* The READY dispatch as it is on the wire
IsReadyFrame(w) ==
    /\ w.hdr = "ok" /\ w.opcode = 1 /\ w.length > 0 /\ w.body = "ok"
    /\ w.text = Text("object", JStr("DISPATCH"), JStr("READY"))

\* a background thread: position, which thread::spawn made it, the locals of
\* connect and connect_and_handshake, and whether READY arrived on its file
Unborn == [pc |-> "unborn", kind |-> "none", calls |-> 0, file |-> None, ready |-> FALSE]

\* ---------------------------------------------------------------- connect
\* What the endpoint answers to successive open calls: script[i] is "ok"
\* when the i-th open of one connect() call would succeed, else the kind of
\* the io::Error it would return. One more answer than connect can ask for.
OpenCalls == 1..(MaxAttempts + 2)
OpenScripts == {[i \in OpenCalls |-> IF i > k THEN "ok" ELSE "NotFound"] : k \in 0..(MaxAttempts + 2)}
                \cup {[i \in OpenCalls |-> IF i % 2 = 0 THEN "ok" ELSE "PermissionDenied"],
                      [i \in OpenCalls |-> IF i \in {3, 4, 11} THEN "ok" ELSE "Other"],
                      [i \in OpenCalls |-> IF i = 11 THEN "ok"
                                             ELSE IF i = 10 THEN "PermissionDenied" ELSE "NotFound"],
                      [i \in OpenCalls |-> "Other"]}
NoScript == [i \in OpenCalls |-> "NotFound"]

\* the loop of connect() with the bound off by one: for attempt in 1..=11
RECURSIVE ConnectLoop_offByOne(_, _)
ConnectLoop_offByOne(script, attempt) ==
    IF script[attempt] = "ok"
    THEN [ok |-> TRUE, opens |-> attempt, kind |-> ""]
    ELSE IF attempt = MaxAttempts + 1
    THEN [ok |-> FALSE, opens |-> attempt, kind |-> script[attempt]]
    ELSE ConnectLoop_offByOne(script, attempt + 1)

\* the loop of connect(): the result and the number of opens made; the error
\* returned is the one of the 10th open (discord_ipc.rs 30-33)
RECURSIVE ConnectLoop(_, _)
ConnectLoop(script, attempt) ==
    IF script[attempt] = "ok"
    THEN [ok |-> TRUE, opens |-> attempt, kind |-> ""]
    ELSE IF attempt = MaxAttempts
    THEN [ok |-> FALSE, opens |-> attempt, kind |-> script[attempt]]
    ELSE ConnectLoop(script, attempt + 1)
connect(script) == ConnectLoop(script, 1)

\* A return of connect (stage "open", res "Ok") or of connect_and_handshake
\* in thread t: the stage it ended in ("open", "write", "read"), the open
\* answers and the opens made, the response frame the channel delivered (if
\* it got that far) and the io::Result returned.
NoWire == Wire("none", 0, 0, "ok", EmptyText)
HsReturn(t, stage, script, opens, w, res) ==
    Some([t |-> t, stage |-> stage, script |-> script, opens |-> opens, wire |-> w, res |-> res])

\* ------------------------------------------------- connect_and_handshake
\* the match with the opcode left unchecked
HandshakeResult_anyOpcode(r) ==
    IF r.ok
    THEN LET p == FromStr(r.text) IN
         IF p.ok /\ AndThenAsStr(Get(p.json, "cmd")) = Some("DISPATCH")
                 /\ AndThenAsStr(Get(p.json, "evt")) = Some("READY")
         THEN "Ok" ELSE "InvalidData"
    ELSE r.kind
\* the match with evt left unchecked
HandshakeResult_anyEvt(r) ==
    IF r.ok /\ r.opcode = 1
    THEN LET p == FromStr(r.text) IN
         IF p.ok /\ AndThenAsStr(Get(p.json, "cmd")) = Some("DISPATCH")
         THEN "Ok" ELSE "InvalidData"
    ELSE IF r.ok THEN "InvalidData"
    ELSE r.kind

\* The match on the response frame: "Ok" (the handle is returned) or the
\* kind of the io::Error returned.
HandshakeResult(r) ==
    IF r.ok /\ r.opcode = 1
    THEN LET p == FromStr(r.text) IN
         IF p.ok
         THEN IF AndThenAsStr(Get(p.json, "cmd")) = Some("DISPATCH")
                 /\ AndThenAsStr(Get(p.json, "evt")) = Some("READY")
              THEN "Ok"
              ELSE "InvalidData"
         ELSE "InvalidData"
    ELSE IF r.ok THEN "InvalidData"
    ELSE r.kind

\* ------------------------------------------------------ activity payload
UnwrapOr(o, d) == IF o = None THEN d ELSE Unwrap(o)
\* timestamps whose end is the duration itself, not start + duration
ActivityPayload_endIsDuration(track, start_time) ==
    LET clean_title == UnwrapOr(track.title, "")
        clean_artist == UnwrapOr(track.artist, "")
        clean_album_art == UnwrapOr(track.album_art, "")
        end_time == track.duration_sec
    IN [start |-> start_time,
        end |-> end_time,
        large_image |-> IF clean_album_art = "" THEN None ELSE Some(clean_album_art),
        details |-> IF clean_title = "" THEN None ELSE Some(clean_title),
        state |-> IF clean_artist = "" THEN None ELSE Some(<<"by ", clean_artist>>)]
\* main.rs 179-217: cleaned fields, timestamps and the activity object
ActivityPayload(track, start_time) ==
    LET clean_title == UnwrapOr(track.title, "")
        clean_artist == UnwrapOr(track.artist, "")
        clean_album_art == UnwrapOr(track.album_art, "")
        end_time == IF track.duration_sec = None THEN None
                    ELSE Some(start_time + Unwrap(track.duration_sec))
    IN [start |-> start_time,
        end |-> end_time,
        large_image |-> IF clean_album_art = "" THEN None ELSE Some(clean_album_art),
        details |-> IF clean_title = "" THEN None ELSE Some(clean_title),
        state |-> IF clean_artist = "" THEN None ELSE Some(<<"by ", clean_artist>>)]
NoPayload == [start |-> 0, end |-> None, large_image |-> None, details |-> None, state |-> None]

\* a comparison that leaves duration_sec out
should_update_discord_noDuration(last, current) ==
    \/ last.title /= current.title
    \/ last.artist /= current.artist
    \/ last.album_art /= current.album_art
\* is_none() in place of is_empty()
BothEmpty_isNone(track) == track.title = None /\ track.artist = None

\* The deduplicator: derived PartialEq of LastTrackInfo, negated
should_update_discord(last, current) == last /= current
\* main.rs:184
BothEmpty(track) == UnwrapOr(track.title, "") = "" /\ UnwrapOr(track.artist, "") = ""

\* --------------------------------------------------------------- requests
OtherRequest == [cmd |-> "other", track |-> DefaultTrack]
Requests == {[cmd |-> "trackUpdate", track |-> s] : s \in LastTrackInfo} \cup {OtherRequest}
Track(t, a, i, d) == [title |-> t, artist |-> a, album_art |-> i, duration_sec |-> d]
SmallTracks == {Track(Some("Song A"), Some("Artist X"), Some("http://x/a.png"), Some(200)),
                Track(Some("Song A"), Some("Artist X"), Some("http://x/a.png"), Some(210)),
                Track(Some(""), None, Some("http://x/a.png"), Some(200))}
SmallRequests == {[cmd |-> "trackUpdate", track |-> s] : s \in SmallTracks} \cup {OtherRequest}

Spawn(t, kind) == [Unborn EXCEPT !.pc = "connect", !.kind = kind]

\* the loopback channel of the framing model is not in use
NoFraming == pipe = <<>> /\ wlog = <<>> /\ nframes = 0 /\ closed = FALSE /\ rres = NoRead

Init ==
    /\ slot = None
    /\ lockOwner = Free
    /\ last_track = DefaultTrack
    /\ hpc = "idle"
    /\ cur = DefaultTrack
    /\ payload = NoPayload
    /\ herr = ""
    /\ seq = 0
    /\ outcome = Out("none", "")
    /\ sent = <<>>
    /\ wrote = None
    /\ dropped = {}
    /\ th = [t \in Threads |-> IF t = 1 THEN Spawn(1, "startup") ELSE Unborn]
    /\ hs = None
    /\ nthreads = 1
    /\ rlog = <<>>
    /\ NoFraming

\* A panic of the ipc handler unwinds out of the webview callback: the
\* process is gone and no context takes another step. A deadlocked handler
\* keeps the lock; the threads run on until they need it.
Alive == hpc /= "panicked"

\* ============================================================ ipc handler
\* main.rs 157-227: parse, deduplicate, build the payload; stops in front of
\* the lock() of line 229. serde_json::to_string of a Value built by json!
\* does not fail, so the return of line 226 is never taken.
Notify(req) ==
    /\ hpc = "idle"
    /\ UNCHANGED <<rlog, FrameVars>>
    /\ seq < MaxSnaps
    /\ seq' = seq + 1
    /\ wrote' = None
    /\ UNCHANGED <<slot, lockOwner, herr, sent, dropped, th, hs, nthreads>>
    /\ IF req.cmd /= "trackUpdate"
       THEN /\ outcome' = Out("ignored", "")
            /\ UNCHANGED <<last_track, hpc, cur, payload>>
       ELSE /\ cur' = req.track
            /\ last_track' = req.track
            /\ IF ~should_update_discord(last_track, req.track)
               THEN /\ outcome' = Out("duplicate", "")
                    /\ UNCHANGED <<hpc, payload>>
               ELSE IF BothEmpty(req.track)
               THEN /\ outcome' = Out("noop", "")
                    /\ UNCHANGED <<hpc, payload>>
               ELSE /\ \E start_time \in Times :
                          payload' = ActivityPayload(req.track, start_time)
                    /\ hpc' = "lock"
                    /\ outcome' = Out("running", "")

\* a handler that keeps the report and tries again once a handle is there
HandlerLock_queued ==
    /\ hpc = "lock"
    /\ UNCHANGED <<rlog, FrameVars>>
    /\ lockOwner = Free
    /\ UNCHANGED <<slot, last_track, cur, herr, seq, sent, wrote, hs, payload, outcome>>
    /\ IF slot /= None
       THEN /\ lockOwner' = Ui
            /\ hpc' = "send"
            /\ UNCHANGED <<dropped, th, nthreads>>
       ELSE /\ seq \notin dropped
            /\ nthreads < MaxThreads
            /\ nthreads' = nthreads + 1
            /\ th' = [th EXCEPT ![nthreads + 1] = Spawn(nthreads + 1, "reconnect")]
            /\ dropped' = dropped \cup {seq}
            /\ UNCHANGED <<hpc, lockOwner>>

\* main.rs 229-231: lock the slot and look into it; with a handle go on to
\* send under the guard, without one go on to the else branch (251), the
\* guard still held. The report has found the slot empty. (A report that
\* could not start its thread within MaxThreads is not taken this far.)
HandlerLock ==
    /\ hpc = "lock"
    /\ UNCHANGED <<rlog, FrameVars>>
    /\ lockOwner = Free
    /\ lockOwner' = Ui
    /\ UNCHANGED <<slot, last_track, cur, herr, seq, sent, wrote, hs, payload, outcome, th, nthreads>>
    /\ IF slot /= None
       THEN /\ hpc' = "send"
            /\ UNCHANGED dropped
       ELSE /\ nthreads < MaxThreads
            /\ hpc' = "drop"
            /\ dropped' = dropped \cup {seq}

\* main.rs 253-254: process::id(); drop(connection_guard)
HandlerDrop ==
    /\ hpc = "drop"
    /\ UNCHANGED <<rlog, FrameVars>>
    /\ lockOwner' = Free
    /\ hpc' = "spawn"
    /\ UNCHANGED <<slot, last_track, cur, herr, seq, sent, wrote, hs, payload, outcome, dropped, th, nthreads>>

\* main.rs 256-260: thread::spawn(attempt_reconnect), with the guard gone:
\* whatever the slot holds by now; the invocation ends
HandlerSpawn ==
    /\ hpc = "spawn"
    /\ UNCHANGED <<rlog, FrameVars>>
    /\ nthreads < MaxThreads
    /\ nthreads' = nthreads + 1
    /\ th' = [th EXCEPT ![nthreads + 1] = Spawn(nthreads + 1, "reconnect")]
    /\ hpc' = "idle"
    /\ payload' = NoPayload
    /\ outcome' = Out("dropped", "")
    /\ UNCHANGED <<slot, lockOwner, last_track, cur, herr, seq, sent, wrote, hs, dropped>>

\* a reporter whose frames reach the channel last in, first out
HandlerSend_lifo ==
    /\ hpc = "send"
    /\ UNCHANGED <<rlog, FrameVars>>
    /\ UNCHANGED <<slot, lockOwner, last_track, cur, payload, seq, outcome, dropped, th, hs, nthreads>>
    /\ \E w \in {"ok"} \cup WriteErrKinds :
         IF w = "ok"
         THEN /\ sent' = <<(<<Unwrap(slot)[1], seq>>)>> \o sent
              /\ wrote' = Some([opcode |-> 1, cmd |-> "SET_ACTIVITY",
                                pid |-> Unwrap(slot)[2], activity |-> payload])
              /\ hpc' = "read"
              /\ herr' = herr
         ELSE /\ herr' = w
              /\ hpc' = "hie"
              /\ UNCHANGED <<sent, wrote>>

\* a reporter that writes the command and does not read the response
HandlerSend_fireAndForget ==
    /\ hpc = "send"
    /\ UNCHANGED <<rlog, FrameVars>>
    /\ UNCHANGED <<slot, last_track, cur, seq, dropped, th, hs, nthreads>>
    /\ \E w \in {"ok"} \cup WriteErrKinds :
         IF w = "ok"
         THEN /\ sent' = Append(sent, <<Unwrap(slot)[1], seq>>)
              /\ wrote' = Some([opcode |-> 1, cmd |-> "SET_ACTIVITY",
                                pid |-> Unwrap(slot)[2], activity |-> payload])
              /\ hpc' = "idle"
              /\ lockOwner' = Free
              /\ outcome' = Out("acked", "")
              /\ payload' = NoPayload
              /\ herr' = herr
         ELSE /\ herr' = w
              /\ hpc' = "hie"
              /\ UNCHANGED <<sent, wrote, lockOwner, outcome, payload>>

\* main.rs 233, discord_ipc.rs 97-123: set_activity writes one opcode 1 frame
\* (its from_str of the string serialised just before cannot fail); what is
\* left is the outcome of write_message.
HandlerSend ==
    /\ hpc = "send"
    /\ UNCHANGED <<rlog, FrameVars>>
    /\ UNCHANGED <<slot, lockOwner, last_track, cur, payload, seq, outcome, dropped, th, hs, nthreads>>
    /\ \E w \in {"ok"} \cup WriteErrKinds :
         IF w = "ok"
         THEN /\ sent' = Append(sent, <<Unwrap(slot)[1], seq>>)
              /\ wrote' = Some([opcode |-> 1, cmd |-> "SET_ACTIVITY",
                                pid |-> Unwrap(slot)[2], activity |-> payload])
              /\ hpc' = "read"
              /\ herr' = herr
         ELSE /\ herr' = w
              /\ hpc' = "hie"
              /\ UNCHANGED <<sent, wrote>>

\* main.rs 236-245: read the response; an Ok response is only inspected
HandlerRead ==
    /\ hpc = "read"
    /\ UNCHANGED FrameVars
    /\ rlog' = Append(rlog, <<Unwrap(slot)[1], seq>>)
    /\ UNCHANGED <<slot, last_track, cur, seq, sent, wrote, dropped, th, hs, nthreads>>
    /\ \E w \in ResponseWires :
         LET r == read_message(w) IN
         IF r.ok
         THEN /\ outcome' = IF Contains(r.text, "cmd", "SET_ACTIVITY")
                               /\ Contains(r.text, "evt", "ERROR")
                            THEN Out("rejected", "") ELSE Out("acked", "")
              /\ hpc' = "idle"
              /\ lockOwner' = Free
              /\ payload' = NoPayload
              /\ herr' = herr
         ELSE /\ herr' = r.kind
              /\ hpc' = "hie"
              /\ UNCHANGED <<outcome, lockOwner, payload>>

\* main.rs 330-351, called at 243 and 248 inside the scope of
\* connection_guard. For a transport kind it locks the slot mutex again:
\* std::sync::Mutex is not reentrant, a second lock() by the owning thread
\* never returns (it deadlocks or panics).
handle_ipc_error ==
    /\ hpc = "hie"
    /\ UNCHANGED <<rlog, FrameVars>>
    /\ UNCHANGED <<last_track, cur, seq, sent, wrote, dropped, hs>>
    /\ IF herr \in TransportKinds
       THEN IF lockOwner = Ui
            THEN /\ \E o \in {"deadlock", "panicked"} : hpc' = o /\ outcome' = Out(o, herr)
                 /\ UNCHANGED <<slot, lockOwner, payload, herr, th, nthreads>>
            ELSE /\ lockOwner = Free
                 /\ slot' = None
                 /\ nthreads < MaxThreads
                 /\ nthreads' = nthreads + 1
                 /\ th' = [th EXCEPT ![nthreads + 1] = Spawn(nthreads + 1, "reconnect")]
                 /\ hpc' = "idle"
                 /\ outcome' = Out("invalidated", "")
                 /\ payload' = NoPayload
                 /\ herr' = ""
                 /\ UNCHANGED lockOwner
       ELSE /\ hpc' = "idle"
            /\ outcome' = Out("error_ignored", herr)
            /\ lockOwner' = Free
            /\ payload' = NoPayload
            /\ herr' = ""
            /\ UNCHANGED <<slot, th, nthreads>>

\* ====================================================== background threads
\* what no background thread changes
HandlerVars == <<last_track, hpc, cur, payload, herr, seq, outcome, sent, wrote, dropped, nthreads, rlog, FrameVars>>
\* the return recorded in hs is kept until the thread that made it moves on
Consumed(t) == IF hs /= None /\ Unwrap(hs).t = t THEN None ELSE hs

\* main.rs 297, discord_ipc.rs 19-45: connect(), the whole open loop
ThreadConnect(t) ==
    /\ Alive
    /\ th[t].pc = "connect"
    /\ UNCHANGED <<slot, lockOwner, HandlerVars>>
    /\ \E script \in OpenScripts :
         LET r == connect(script) IN
         IF r.ok
         THEN /\ th' = [th EXCEPT ![t].file = Some(t), ![t].pc = "hs_write", ![t].calls = @ + 1]
              /\ hs' = HsReturn(t, "open", script, r.opens, NoWire, "Ok")
         ELSE /\ th' = [th EXCEPT ![t].pc = "err", ![t].calls = @ + 1]
              /\ hs' = HsReturn(t, "open", script, r.opens, NoWire, r.kind)

\* main.rs 298, discord_ipc.rs 87-94: send_handshake(&mut file, client_id)?
ThreadSendHandshake(t) ==
    /\ Alive
    /\ th[t].pc = "hs_write"
    /\ UNCHANGED <<slot, lockOwner, HandlerVars>>
    /\ \E w \in {"ok"} \cup WriteErrKinds :
         IF w = "ok"
         THEN /\ th' = [th EXCEPT ![t].pc = "hs_read"]
              /\ hs' = Consumed(t)
         ELSE /\ th' = [th EXCEPT ![t].pc = "err", ![t].file = None]
              /\ hs' = HsReturn(t, "write", NoScript, 0, NoWire, w)

\* main.rs 299-325: read one frame and match on it
ThreadReadHandshake(t) ==
    /\ Alive
    /\ th[t].pc = "hs_read"
    /\ UNCHANGED <<slot, lockOwner, HandlerVars>>
    /\ \E w \in HandshakeWires :
         LET res == HandshakeResult(read_message(w))
         IN /\ th' = [th EXCEPT ![t].ready = IsReadyFrame(w),
                                ![t].file = IF res = "Ok" THEN @ ELSE None,
                                ![t].pc = IF res = "Ok" THEN "ok" ELSE "err"]
            /\ hs' = HsReturn(t, "read", NoScript, 0, w, res)

\* a startup thread that tries once more after a failed attempt
ThreadStartupFailed_retry(t) ==
    /\ Alive
    /\ th[t].pc = "err"
    /\ th[t].kind = "startup"
    /\ th' = [th EXCEPT ![t].pc = IF th[t].calls < 2 THEN "connect" ELSE "done"]
    /\ hs' = Consumed(t)
    /\ UNCHANGED <<slot, lockOwner, HandlerVars>>

\* main.rs 134-139: the startup thread only logs a failed attempt
ThreadStartupFailed(t) ==
    /\ Alive
    /\ th[t].pc = "err"
    /\ th[t].kind = "startup"
    /\ th' = [th EXCEPT ![t].pc = "done"]
    /\ hs' = Consumed(t)
    /\ UNCHANGED <<slot, lockOwner, HandlerVars>>

\* main.rs 131, 361, 366: lock() after connect_and_handshake has returned
ThreadLock(t) ==
    /\ Alive
    /\ \/ th[t].pc = "ok"
       \/ th[t].pc = "err" /\ th[t].kind = "reconnect"
    /\ lockOwner = Free
    /\ lockOwner' = Tid(t)
    /\ th' = [th EXCEPT ![t].pc = IF th[t].pc = "ok" THEN "install" ELSE "clear"]
    /\ hs' = Consumed(t)
    /\ UNCHANGED <<slot, HandlerVars>>

\* main.rs 132, 362: *guard = Some((file, pid)); the guard is dropped
ThreadInstall(t) ==
    /\ Alive
    /\ th[t].pc = "install"
    /\ slot' = Some(<<Unwrap(th[t].file), Pid>>)
    /\ lockOwner' = Free
    /\ th' = [th EXCEPT ![t].pc = "done", ![t].file = None]
    /\ UNCHANGED <<hs, HandlerVars>>

\* an attempt_reconnect that tries again after a failure
ThreadClear_retry(t) ==
    /\ Alive
    /\ th[t].pc = "clear"
    /\ slot' = IF slot /= None THEN None ELSE slot
    /\ lockOwner' = Free
    /\ th' = [th EXCEPT ![t].pc = IF th[t].calls < 2 THEN "connect" ELSE "done"]
    /\ UNCHANGED <<hs, HandlerVars>>

\* main.rs 367-369: if guard.is_some() { *guard = None }; the guard is dropped
ThreadClear(t) ==
    /\ Alive
    /\ th[t].pc = "clear"
    /\ slot' = IF slot /= None THEN None ELSE slot
    /\ lockOwner' = Free
    /\ th' = [th EXCEPT ![t].pc = "done"]
    /\ UNCHANGED <<hs, HandlerVars>>

Next ==
    \/ \E req \in SmallRequests : Notify(req)
    \/ HandlerLock
    \/ HandlerDrop
    \/ HandlerSpawn
    \/ HandlerSend
    \/ HandlerRead
    \/ handle_ipc_error
    \/ \E t \in Threads : ThreadConnect(t)
    \/ \E t \in Threads : ThreadSendHandshake(t)
    \/ \E t \in Threads : ThreadReadHandshake(t)
    \/ \E t \in Threads : ThreadStartupFailed(t)
    \/ \E t \in Threads : ThreadLock(t)
    \/ \E t \in Threads : ThreadInstall(t)
    \/ \E t \in Threads : ThreadClear(t)

Spec == Init /\ [][Next]_vars

\* Scheduling: the UI thread inside the handler and every spawned thread
\* are OS threads; one whose next step is its own (a lock() on a free mutex,
\* an assignment, a spawn, connect() with its ten opens and sleeps) takes it
\* in the end. Nothing is owed for a write or read on the channel: read_exact
\* has no timeout and returns when the peer lets it. Notifications come from
\* the page and are not owed either.
HandlerStep == HandlerLock \/ HandlerDrop \/ HandlerSpawn \/ handle_ipc_error
ThreadStep(t) ==
    \/ ThreadConnect(t)
    \/ ThreadStartupFailed(t) \/ ThreadLock(t) \/ ThreadInstall(t) \/ ThreadClear(t)
SpecFair ==
    /\ Spec
    /\ WF_vars(HandlerStep)
    /\ \A t \in Threads : WF_vars(ThreadStep(t))

\* The ipc handler alone, over every snapshot, once the startup thread has
\* finished one way or the other.
InitTrack ==
    /\ slot \in {None, Some(<<1, Pid>>)}
    /\ lockOwner = Free
    /\ last_track = DefaultTrack
    /\ hpc = "idle"
    /\ cur = DefaultTrack
    /\ payload = NoPayload
    /\ herr = ""
    /\ seq = 0
    /\ outcome = Out("none", "")
    /\ sent = <<>>
    /\ wrote = None
    /\ dropped = {}
    /\ th = [t \in Threads |-> IF t = 1
                               THEN [Unborn EXCEPT !.pc = "done", !.kind = "startup",
                                                   !.calls = 1, !.ready = (slot /= None)]
                               ELSE Unborn]
    /\ hs = None
    /\ nthreads = 1
    /\ rlog = <<>>
    /\ NoFraming

NextTrack ==
    \/ \E req \in Requests : Notify(req)
    \/ HandlerLock
    \/ HandlerDrop
    \/ HandlerSpawn
    \/ HandlerSend
    \/ HandlerRead
    \/ handle_ipc_error

SpecTrack == InitTrack /\ [][NextTrack]_vars

\* The frame description read_message works on in the program model, taken
\* from the bytes the channel will deliver (the text itself is not carried).
WireOf(p) ==
    IF Len(p) < 8 THEN Wire("UnexpectedEof", 0, 0, "ok", EmptyText)
    ELSE LET length == from_le_bytes(SubSeq(p, 5, 8))
         IN Wire("ok", from_le_bytes(SubSeq(p, 1, 4)), length,
                 IF length = 0 THEN "ok"
                 ELSE IF Len(p) - 8 < length THEN "UnexpectedEof"
                 ELSE IF Utf8Valid(SubSeq(p, 9, 8 + length)) THEN "ok"
                 ELSE "badutf8",
                 EmptyText)
\* read_message on the frame description returns what read_message on the
\* bytes returns: Ok with the same opcode, or the same error kind
FramingAbstraction ==
    closed \/ Complete(pipe)
      => LET a == read_message(WireOf(pipe))
             b == read_message_bytes(pipe)
         IN a.ok = b.ok /\ a.kind = b.kind /\ a.opcode = b.opcode

\* =============================================================== framing
\* write_message and read_message on one channel: what is written is read
\* back from the same byte queue; the peer may have left bytes in it.
InitFrame ==
    /\ slot = None
    /\ lockOwner = Free
    /\ last_track = DefaultTrack
    /\ hpc = "idle"
    /\ cur = DefaultTrack
    /\ payload = NoPayload
    /\ herr = ""
    /\ seq = 0
    /\ outcome = Out("none", "")
    /\ sent = <<>>
    /\ wrote = None
    /\ dropped = {}
    /\ th = [t \in Threads |-> Unborn]
    /\ hs = None
    /\ nthreads = 0
    /\ rlog = <<>>
    /\ pipe \in PeerChunks
    /\ wlog = <<>>
    /\ nframes = 0
    /\ closed = FALSE
    /\ rres = NoRead

\* discord_ipc.rs 48-60: header and payload go into the channel. Frames are
\* written onto a frame boundary: behind whole frames, not behind bytes of
\* the peer that are still unread.
FrameWrite(opcode, text) ==
    /\ ~closed
    /\ pipe = Encode(wlog)
    /\ nframes < MaxFrames
    /\ nframes' = nframes + 1
    /\ pipe' = pipe \o write_message(opcode, text)
    /\ wlog' = Append(wlog, Frame(opcode, text))
    /\ UNCHANGED <<closed, rres, ProgramVars>>

\* discord_ipc.rs 63-84: one call, returning once its bytes are there or the
\* channel has ended; the oldest logged frame is dropped from the log
FrameRead ==
    /\ closed \/ Complete(pipe)
    /\ LET r == read_message_bytes(pipe)
       IN /\ rres' = r
          /\ pipe' = SubSeq(pipe, r.consumed + 1, Len(pipe))
    /\ wlog' = IF wlog /= <<>> THEN Tail(wlog) ELSE wlog
    /\ UNCHANGED <<nframes, closed, ProgramVars>>

\* the peer closes its end
PeerClose ==
    /\ ~closed
    /\ closed' = TRUE
    /\ UNCHANGED <<pipe, wlog, nframes, rres, ProgramVars>>

NextFrame ==
    \/ \E o \in FrameOpcodes, t \in FrameTexts : FrameWrite(o, t)
    \/ FrameRead
    \/ PeerClose

SpecFrame == InitFrame /\ [][NextFrame]_vars

\* ==================================================================== claims

\* C1: whenever set_activity or the read_message after it fails with a
\* transport error (BrokenPipe, ConnectionReset, UnexpectedEof), the slot
\* becomes empty and exactly one reconnect attempt is scheduled for it.
\* Stated on the step in which handle_ipc_error deals with such an error.
C1_TransportErrorInvalidates ==
    [][(hpc = "hie" /\ herr \in {"BrokenPipe", "ConnectionReset", "UnexpectedEof"} /\ hpc' /= "hie")
         => (slot' = None /\ nthreads' = nthreads + 1)]_vars

\* C2: in every reachable state no execution context holds the slot lock
\* while it is inside a blocking channel I/O call (open, write_message,
\* read_message), the reporter as well as the startup and reconnect threads.
C2_NoLockAcrossIO ==
    /\ hpc \in {"send", "read"} => lockOwner /= Ui
    /\ \A t \in Threads : th[t].pc \in {"connect", "hs_write", "hs_read"} => lockOwner /= Tid(t)

\* Who holds the lock where, as the code has it: a background thread only
\* between its lock() and the swap, the ipc handler from line 229 to the end
\* of the invocation, I/O and handle_ipc_error included, or to the drop of
\* line 254 when the slot is empty.
LockDiscipline ==
    /\ \A t \in Threads : lockOwner = Tid(t) <=> th[t].pc \in {"install", "clear"}
    /\ lockOwner = Ui <=> hpc \in {"drop", "send", "read", "hie", "deadlock", "panicked"}
    /\ lockOwner \in {Free, Ui} \cup {Tid(t) : t \in Threads}

\* C3: connect_and_handshake returns a handle if and only if the channel
\* opened, the handshake frame was written and the one response frame read
\* has opcode 1 and a payload that is a JSON object with cmd "DISPATCH" and
\* evt "READY"; everything else yields an error value.
C3_HandshakeIffReady ==
    hs /= None =>
      LET r == Unwrap(hs)
          returnedHandle == th[r.t].pc = "ok"
          ErrorKinds == OpenErrKinds \cup WriteErrKinds \cup ReadErrKinds \cup {"InvalidData"}
      IN /\ returnedHandle <=> (r.stage = "read" /\ IsReadyFrame(r.wire))
         /\ returnedHandle <=> (r.stage = "read" /\ r.res = "Ok")
         /\ returnedHandle => th[r.t].file = Some(r.t)
         /\ ~returnedHandle /\ r.res /= "Ok" => r.res \in ErrorKinds /\ th[r.t].pc = "err"
         /\ r.stage = "read" /\ ~IsReadyFrame(r.wire) => r.res \in {"InvalidData"} \cup ReadErrKinds
         /\ r.stage = "open" /\ r.res = "Ok" => th[r.t].pc = "hs_write"

\* the READY response has just been read and the handle returned
C3_Witness ==
    /\ hs /= None
    /\ Unwrap(hs).stage = "read"
    /\ Unwrap(hs).res = "Ok"
    /\ th[Unwrap(hs).t].pc = "ok"

\* C4: one call of connect makes at most 10 open attempts, returns the handle
\* at the first open that succeeds, and returns an error when all 10 fail,
\* without an 11th; a write or read failure of the handshake is not retried:
\* connect is not called again within the same connect_and_handshake call.
C4_ConnectBound ==
    /\ hs /= None /\ Unwrap(hs).stage = "open" =>
         LET r == Unwrap(hs) IN
         /\ r.opens \in 1..10
         /\ r.res = "Ok" <=> \E i \in 1..10 : r.script[i] = "ok"
         /\ r.res = "Ok" => r.script[r.opens] = "ok" /\ \A i \in 1..(r.opens - 1) : r.script[i] /= "ok"
         /\ r.res /= "Ok" => r.opens = 10 /\ th[r.t].pc = "err" /\ r.res = r.script[10]
    /\ \A t \in Threads : th[t].calls <= 1
    /\ \A t \in Threads : th[t].pc \in {"hs_write", "hs_read", "ok", "err", "install", "clear", "done"}
                            => th[t].calls = 1

\* ten opens failed, the tenth with another kind than the nine before, and
\* connect returned that error although an 11th open would have succeeded
C4_Witness ==
    /\ hs /= None
    /\ Unwrap(hs).stage = "open"
    /\ Unwrap(hs).res = "PermissionDenied"
    /\ Unwrap(hs).opens = 10
    /\ Unwrap(hs).script[9] = "NotFound"
    /\ Unwrap(hs).script[11] = "ok"

\* the four fields of a snapshot, compared one by one
Differs(a, b) ==
    \/ a.title /= b.title
    \/ a.artist /= b.artist
    \/ a.album_art /= b.album_art
    \/ a.duration_sec /= b.duration_sec

\* C5: for a trackUpdate snapshot the handler goes on to the reporter exactly
\* when the snapshot differs from the remembered one in at least one of
\* title, artist, album_art, duration; the remembered snapshot afterwards is
\* the incoming one; a snapshot equal to the remembered one writes no frame.
C5_Dedupe ==
    /\ [](outcome.what = "duplicate" => hpc = "idle" /\ wrote = None)
    /\ [][(seq' /= seq /\ outcome'.what /= "ignored")
            => /\ last_track' = cur'
               /\ outcome'.what = "duplicate" <=> ~Differs(last_track, cur')
               /\ outcome'.what \in {"duplicate", "noop", "running"}
               /\ outcome'.what = "duplicate" => UNCHANGED <<slot, lockOwner, sent, th, nthreads>>]_vars

\* scenario A: the first snapshot was sent, the same snapshot came again
C5_Witness ==
    /\ seq = 2
    /\ outcome.what = "duplicate"
    /\ cur = Track(Some("Song A"), Some("Artist X"), Some("http://x/a.png"), Some(200))
    /\ sent = <<(<<1, 1>>)>>
    /\ wrote = None

\* C6: a report that reaches the send step while the slot is empty writes no
\* frame, spawns one reconnect thread and returns at once; the report is
\* dropped: no frame is ever written for that notification, frames are
\* written only by the running invocation for its own snapshot.
C6_Dropped ==
    /\ [](\A i \in 1..Len(sent) : sent[i][2] \notin dropped)
    /\ [](hpc \in {"drop", "spawn"} => seq \in dropped /\ wrote = None)
    /\ [][(hpc = "lock" /\ slot = None /\ hpc' /= "lock")
            => /\ hpc' = "drop"
               /\ dropped' = dropped \cup {seq}
               /\ UNCHANGED <<slot, sent, wrote, last_track, th, nthreads>>]_vars
    /\ [][(hpc = "drop" /\ hpc' /= "drop")
            => /\ hpc' = "spawn"
               /\ lockOwner' = Free
               /\ UNCHANGED <<slot, sent, wrote, last_track, th, nthreads, dropped>>]_vars
    /\ [][(hpc = "spawn" /\ hpc' /= "spawn")
            => /\ hpc' = "idle"
               /\ nthreads' = nthreads + 1
               /\ th'[nthreads'].pc = "connect"
               /\ \A t \in 1..nthreads : th'[t] = th[t]
               /\ UNCHANGED <<slot, lockOwner, sent, wrote, last_track, dropped>>]_vars
    /\ [][sent' /= sent
            => /\ hpc = "send"
               /\ slot /= None
               /\ sent' = Append(sent, <<Unwrap(slot)[1], seq>>)
               /\ Differs(last_track, DefaultTrack) /\ last_track = cur]_vars

\* the first report was dropped, the reconnect it triggered installed its
\* handle, and the only frame written is the one of the second notification
C6_Witness ==
    /\ dropped = {1}
    /\ slot = Some(<<2, Pid>>)
    /\ sent = <<(<<2, 2>>)>>

\* C7: every reconnect thread makes exactly one connect_and_handshake call;
\* when it succeeded the thread installs its handle, when it failed the slot
\* is empty after the thread's last step; a finished thread does nothing
\* more, and threads are spawned by the handler only.
C7_OneAttemptPerTrigger ==
    /\ [](\A t \in Threads : /\ th[t].calls <= 1
                             /\ th[t].pc = "done" => th[t].calls = 1
                             /\ t > nthreads <=> th[t].pc = "unborn")
    /\ [][\A t \in Threads :
            /\ th[t].pc = "install" /\ th'[t].pc /= "install"
                 => th'[t].pc = "done" /\ slot' = Some(<<t, Pid>>)
            /\ th[t].pc = "clear" /\ th'[t].pc /= "clear"
                 => th'[t].pc = "done" /\ slot' = None
            /\ th[t].kind = "reconnect" /\ th[t].pc = "ok" /\ th'[t].pc /= "ok"
                 => th'[t].pc = "install"
            /\ th[t].kind = "reconnect" /\ th[t].pc = "err" /\ th'[t].pc /= "err"
                 => th'[t].pc = "clear"
            /\ th[t].pc = "done" => th'[t] = th[t]]_vars
    /\ [][nthreads' /= nthreads
            => /\ nthreads' = nthreads + 1
               /\ hpc \in {"spawn", "hie"} /\ hpc' = "idle"
               /\ th'[nthreads'] = Spawn(nthreads', "reconnect")]_vars

\* a reconnect triggered by a dropped report failed: the thread is finished,
\* made one call, and the slot is empty
C7_Witness ==
    /\ nthreads = 2
    /\ th[2].kind = "reconnect"
    /\ th[2].pc = "done"
    /\ th[2].calls = 1
    /\ ~th[2].ready
    /\ th[1].pc = "done"
    /\ slot = None

\* C8: a handle held in the slot is one on which READY was received; a
\* handshake that failed (scenario D: opcode 1 with cmd DISPATCH, evt ERROR)
\* never has its handle in the slot.
C8_SlotHandleIsReady ==
    /\ slot /= None => /\ Unwrap(slot)[1] \in 1..nthreads
                       /\ th[Unwrap(slot)[1]].ready
                       /\ Unwrap(slot)[2] = Pid
    /\ \A t \in Threads : ~th[t].ready => slot /= Some(<<t, Pid>>)
    /\ \A t \in Threads : th[t].pc = "install" => th[t].ready /\ th[t].file = Some(t)

\* scenario D: the startup handshake was answered with evt ERROR
C8_Witness ==
    /\ hs /= None
    /\ Unwrap(hs).t = 1
    /\ Unwrap(hs).stage = "read"
    /\ Unwrap(hs).wire = Wire("ok", 1, PayloadLen, "ok", Text("object", JStr("DISPATCH"), JStr("ERROR")))
    /\ th[1].pc = "err"
    /\ slot = None

EmptyOrAbsent(o) == o = None \/ o = Some("")

\* C9: a snapshot that passes the deduplicator with title and artist both
\* empty or absent makes the reporter do nothing: no frame is written, the
\* slot and its lock are untouched and no thread is spawned, empty slot or not.
C9_EmptyNoop ==
    /\ [](outcome.what = "noop" => hpc = "idle" /\ wrote = None)
    /\ [][(seq' /= seq /\ outcome'.what \notin {"ignored", "duplicate"}
             /\ EmptyOrAbsent(cur'.title) /\ EmptyOrAbsent(cur'.artist))
            => /\ outcome'.what = "noop"
               /\ hpc' = "idle"
               /\ UNCHANGED <<slot, lockOwner, sent, th, nthreads, dropped>>]_vars

\* the slot is empty, the snapshot has an empty title, no artist, and both
\* album art and duration
C9_Witness ==
    /\ outcome.what = "noop"
    /\ slot = None
    /\ nthreads = 1
    /\ cur.title = Some("") /\ cur.artist = None
    /\ cur.album_art /= None /\ cur.duration_sec /= None

\* C10: when the read after a set-activity command fails with InvalidData
\* (payload bytes that are not valid text), the connection stays: the slot
\* keeps its handle, no thread is spawned, the handler returns and releases
\* the lock.
C10_InvalidDataKeepsConnection ==
    [][(hpc = "hie" /\ herr = "InvalidData" /\ hpc' /= "hie")
         => /\ slot /= None
            /\ UNCHANGED <<slot, th, nthreads>>
            /\ hpc' = "idle"
            /\ lockOwner' = Free]_vars

\* the response to the command was not valid text and the handle is still
\* in the slot
C10_Witness ==
    /\ outcome = Out("error_ignored", "InvalidData")
    /\ hpc = "idle"
    /\ slot /= None
    /\ Len(sent) > 0 /\ sent[Len(sent)] = <<Unwrap(slot)[1], seq>>


\* the startup attempt has returned an error (logged or about to be)
StartupFailed == th[1].pc \in {"err", "done"} /\ ~th[1].ready

\* C11: at process start exactly one connection attempt is made, by the
\* startup thread; when it failed the slot stays empty and nothing connects
\* until a report reaches the send step with the slot empty, and that report
\* spawns the first reconnect thread.
C11_StartupOnce ==
    /\ [](/\ th[1].kind = "startup" /\ th[1].calls <= 1
          /\ \A t \in Threads : t > 1 => th[t].kind /= "startup"
          /\ th[1].pc \in {"hs_write", "hs_read", "ok", "err", "install", "done"} => th[1].calls = 1)
    /\ [](StartupFailed /\ nthreads = 1
            => /\ slot = None /\ sent = <<>>
               /\ \A t \in Threads : t > 1 => th[t].pc = "unborn")
    /\ [][StartupFailed /\ nthreads = 1
            => \/ /\ nthreads' = 1
                  /\ slot' = None
                  /\ StartupFailed'
                  /\ th'[1].calls = 1
               \/ /\ hpc = "spawn" /\ slot = None /\ seq \in dropped
                  /\ slot' = None
                  /\ nthreads' = 2
                  /\ th'[2] = Spawn(2, "reconnect")
                  /\ th'[1] = th[1]
                  /\ seq \in dropped']_vars

\* the startup attempt failed, the slot stayed empty over a notification
\* that did not reach the send step, and the first report that did reach it
\* spawned the reconnect thread
C11_Witness ==
    /\ StartupFailed
    /\ th[1].pc = "done"
    /\ th[1].calls = 1
    /\ seq = 2
    /\ dropped = {2}
    /\ nthreads = 2
    /\ th[2].pc = "connect"
    /\ slot = None


\* C12: when the channel holds exactly the bytes write_message produced for
\* the logged frames, back to back, read_message returns the opcode and the
\* payload of the oldest frame, takes exactly 8 + length bytes and leaves the
\* bytes of the frames after it; such a read never waits.
C12_FramingRoundTrip ==
    /\ [](wlog /= <<>> /\ pipe = Encode(wlog) => Complete(pipe))
    /\ [][(Len(pipe') < Len(pipe) /\ wlog /= <<>> /\ pipe = Encode(wlog))
            => /\ rres'.ok
               /\ rres'.opcode = Head(wlog).opcode
               /\ rres'.payload = Head(wlog).payload
               /\ rres'.consumed = 8 + Len(Head(wlog).payload)
               /\ Len(pipe') = Len(pipe) - (8 + Len(Head(wlog).payload))
               /\ wlog' = Tail(wlog)
               /\ pipe' = Encode(wlog')]_vars

\* two frames were written back to back, the long one with the largest
\* opcode first; it has been read back and the channel holds the second
C12_Witness ==
    /\ rres.ok
    /\ rres.opcode = BigOpcode
    /\ rres.payload = LongText
    /\ rres.consumed = 8 + LongLen
    /\ wlog = <<Frame(1, <<195, 169>>)>>
    /\ pipe = Encode(wlog)


\* two snapshots that differ in the duration and in nothing else
DurationOnly(a, b) ==
    /\ a.title = b.title /\ a.artist = b.artist /\ a.album_art = b.album_art
    /\ a.duration_sec /= b.duration_sec

\* C13: a snapshot that differs from the remembered one only in duration goes
\* to the reporter with freshly computed timestamps; every SET_ACTIVITY
\* command written carries the payload of the running invocation, with an
\* end timestamp exactly when the snapshot has a duration, and then
\* end = start + duration (200 -> 210 gives end = start + 210).
C13_EndTimestamp ==
    /\ [](wrote /= None
            => /\ Unwrap(wrote).opcode = 1 /\ Unwrap(wrote).cmd = "SET_ACTIVITY"
               /\ Unwrap(wrote).activity.start \in Times
               /\ Unwrap(wrote).activity.end = None <=> cur.duration_sec = None
               /\ cur.duration_sec /= None
                    => Unwrap(wrote).activity.end
                         = Some(Unwrap(wrote).activity.start + Unwrap(cur.duration_sec)))
    /\ [][(seq' /= seq /\ outcome'.what /= "ignored" /\ DurationOnly(last_track, cur')
             /\ ~(EmptyOrAbsent(cur'.title) /\ EmptyOrAbsent(cur'.artist)))
            => /\ hpc' = "lock"
               /\ cur'.duration_sec = Some(210)
                    => payload'.end = Some(payload'.start + 210)]_vars
    /\ [][(hpc = "lock" /\ slot /= None /\ hpc' /= "lock") => hpc' = "send" /\ payload' = payload]_vars
    /\ [][(hpc = "send" /\ hpc' = "read")
            => wrote' = Some([opcode |-> 1, cmd |-> "SET_ACTIVITY",
                              pid |-> Unwrap(slot)[2], activity |-> payload])]_vars

\* scenario B: the snapshot with duration 200 was sent, the same track came
\* with duration 210 and its command, with end = start + 210, is written
C13_Witness ==
    /\ seq = 2
    /\ sent = <<(<<1, 1>>), (<<1, 2>>)>>
    /\ cur = Track(Some("Song A"), Some("Artist X"), Some("http://x/a.png"), Some(210))
    /\ wrote /= None
    /\ Unwrap(wrote).activity.start = 1000
    /\ Unwrap(wrote).activity.end = Some(1210)


\* C14: the SET_ACTIVITY commands are written in the order their snapshots
\* arrived: the notification numbers of the frames written increase strictly
\* along the channel, a frame is written by the invocation handling the
\* latest notification, and no notification is taken in while one is handled.
C14_ArrivalOrder ==
    /\ [](\A i, j \in 1..Len(sent) : i < j => sent[i][2] < sent[j][2])
    /\ [](\A i \in 1..Len(sent) : sent[i][2] \in 1..seq)
    /\ [][sent' /= sent
            => /\ Len(sent') = Len(sent) + 1
               /\ \A i \in 1..Len(sent) : sent'[i] = sent[i]
               /\ sent'[Len(sent')][2] = seq /\ seq' = seq]_vars
    /\ [][seq' /= seq => hpc = "idle" /\ seq' = seq + 1]_vars

\* two snapshots arrived one after the other and both commands are on the
\* channel, the first snapshot's first; both were answered
C14_Witness ==
    /\ Len(sent) = 2
    /\ sent[1][2] = 1
    /\ sent[2][2] = 2
    /\ outcome.what = "acked"
    /\ hpc = "idle"


\* C15: a read_message call that decodes a header length of 0 makes the one
\* read_exact call for the 8 header bytes and no other, takes exactly those
\* 8 bytes and returns the header's opcode with an empty payload; it does not
\* wait for more bytes, whether or not any follow in the channel.
C15_ZeroLengthNoPayloadRead ==
    /\ [](Len(pipe) >= 8 /\ from_le_bytes(SubSeq(pipe, 5, 8)) = 0 => Complete(pipe))
    /\ [][(Len(pipe') < Len(pipe) /\ Len(pipe) >= 8 /\ from_le_bytes(SubSeq(pipe, 5, 8)) = 0)
            => /\ rres'.ok
               /\ rres'.reads = 1
               /\ rres'.consumed = 8
               /\ rres'.payload = <<>>
               /\ rres'.opcode = from_le_bytes(SubSeq(pipe, 1, 4))
               /\ pipe' = SubSeq(pipe, 9, Len(pipe))]_vars

\* an empty frame was the last thing in an open channel: it has been read
\* with one read_exact call and nothing is left
C15_Witness ==
    /\ rres.ok
    /\ rres.reads = 1
    /\ rres.consumed = 8
    /\ rres.payload = <<>>
    /\ rres.opcode = BigOpcode
    /\ pipe = <<>>
    /\ ~closed
    /\ nframes = 2


\* C16: the ipc handler never asks for the slot lock while it holds that
\* lock itself, so no invocation is stuck (or aborted) in a second lock():
\* also on the transport-error path through handle_ipc_error every
\* invocation returns.
C16_HandlerNeverSelfBlocks ==
    /\ hpc = "hie" /\ herr \in TransportKinds => lockOwner /= Ui
    /\ hpc \notin {"deadlock", "panicked"}


\* C17: a handle in the slot is taken out or replaced only by the step that
\* deals with a transport error of an I/O on that handle: no background
\* thread clears or overwrites a handle that is in the slot, whichever
\* thread installed it.
C17_OnlyTransportErrorRemoves ==
    [][(slot /= None /\ slot' /= slot)
         => (hpc = "hie" /\ herr \in TransportKinds /\ slot' = None)]_vars


\* C18: on a handle the ipc handler writes and reads in turn: every
\* SET_ACTIVITY frame written is followed by one read_message call on the
\* same handle, made by the same invocation, before the handler writes the
\* next frame; this holds as well when the write or the read before ended
\* with an error kind that leaves the connection in place.
C18_WriteThenOneRead ==
    /\ [](/\ Len(rlog) <= Len(sent)
          /\ Len(sent) <= Len(rlog) + 1
          /\ \A i \in 1..Len(rlog) : rlog[i] = sent[i]
          /\ Len(rlog) < Len(sent) <=> hpc = "read")
    /\ [][sent' /= sent => Len(rlog) = Len(sent) /\ hpc' = "read" /\ rlog' = rlog]_vars
    /\ [][rlog' /= rlog
            => /\ rlog' = Append(rlog, sent[Len(sent)])
               /\ slot' = slot /\ Unwrap(slot)[1] = sent[Len(sent)][1]
               /\ sent' = sent]_vars
    /\ [][(hpc = "hie" /\ hpc' = "idle") => sent' = sent /\ rlog' = rlog /\ slot' = slot]_vars

\* two commands were written on the same handle, each followed by its one
\* read; the last read failed with an error kind that leaves the connection
\* in place
C18_Witness ==
    /\ sent = <<(<<1, 1>>), (<<1, 2>>)>>
    /\ rlog = sent
    /\ slot = Some(<<1, Pid>>)
    /\ outcome = Out("error_ignored", "Other")
    /\ hpc = "idle"


\* C19: a response with cmd SET_ACTIVITY and evt ERROR changes nothing but
\* the log: the step that reads it leaves the handle in the slot, spawns no
\* thread and ends the invocation; from then on the slot keeps that handle,
\* so that the next report is written on it.
C19_RejectionKeepsHandle ==
    /\ [][(hpc = "read" /\ outcome'.what = "rejected")
            => /\ slot /= None /\ slot' = slot
               /\ th' = th /\ nthreads' = nthreads
               /\ hpc' = "idle" /\ lockOwner' = Free]_vars
    /\ [][(hpc = "idle" /\ outcome.what = "rejected") => slot' = slot]_vars
    /\ [][sent' /= sent => sent'[Len(sent')][1] = Unwrap(slot)[1]]_vars


\* C20: once a write or read of the reporter on handle f has failed with a
\* transport error, then, with n threads spawned so far, in the end either
\* the slot holds a handle other than f, or a connection attempt started
\* after the failure has failed (the endpoint did not accept the open and
\* answer READY); no further notification is needed for it.
C20_RecoveryAfterTransportFailure ==
    \A f \in Threads : \A n \in 1..(MaxThreads - 1) :
      (hpc = "hie" /\ herr \in TransportKinds /\ slot = Some(<<f, Pid>>) /\ nthreads = n)
        ~> \/ slot /= None /\ Unwrap(slot)[1] /= f
           \/ \E t \in Threads : t > n /\ th[t].pc \in {"err", "clear"}

====
